---- MODULE Spec2Model ----
(***************************************************************************)
(* A model of checkpwn_lib (src/src/lib.rs, src/src/api.rs,                *)
(* src/src/errors.rs): the two public checks, check_account and            *)
(* check_password, the Password wrapper and its Drop, and the helpers of   *)
(* api.rs.  Strings are sequences of one-character strings, so slicing,    *)
(* splitting and concatenation are computed, not assumed.                  *)
(***************************************************************************)
EXTENDS Naturals, Sequences, FiniteSets

VARIABLES
    pc,          \* position of the caller in the current invocation
    op,          \* name of the function being invoked ("none" when idle)
    account,     \* check_account's first argument
    api_key,     \* check_account's second argument
    plaintext,   \* Password::new's argument
    password,    \* the caller's Password value: its String buffer and length
    acc_stat,    \* outcome of the account-endpoint request  (lib.rs:74)
    paste_stat,  \* outcome of the paste-endpoint request    (lib.rs:80)
    pass_stat,   \* outcome of the range-endpoint request    (lib.rs:134)
    result,      \* what the invocation handed back to its caller
    events,      \* sleeps, requests and responses of the invocation, in order
    fn           \* arguments and return value of a direct call of an api.rs helper

vars == <<pc, op, account, api_key, plaintext, password,
          acc_stat, paste_stat, pass_stat, result, events, fn>>

(***************************************************************************)
(* Bounds and program constants                                            *)
(***************************************************************************)
\* most lines in a response body
MaxLines == 2

\* api.rs:56 and api.rs:76: the digest prefix that is sent, and sliced off
PrefixLen == 5

\* lib.rs:65
SleepMillis == 1600

\* length of an uppercase-hex SHA-1 digest (api.rs:120)
DigestLen == 40

(***************************************************************************)
(* Text                                                                    *)
(***************************************************************************)
qwerty == <<"q","w","e","r","t","y">>
hunter2 == <<"h","u","n","t","e","r","2">>
DigestQwerty == <<"B","1","B","3","7","7","3","A","0","5","C","0","E","D","0","1","7","6","7","8","7","A","4","F","1","5","7","4","F","F","0","0","7","5","F","7","5","2","1","E">>
DigestHunter2 == <<"F","3","B","B","B","D","6","6","A","6","3","D","4","B","F","1","7","4","7","9","4","0","5","7","8","E","C","3","D","0","1","0","3","5","3","0","E","2","1","D">>
SuffixQwerty == <<"7","3","A","0","5","C","0","E","D","0","1","7","6","7","8","7","A","4","F","1","5","7","4","F","F","0","0","7","5","F","7","5","2","1","E">>
SuffixQwertyLower == <<"7","3","a","0","5","c","0","e","d","0","1","7","6","7","8","7","a","4","f","1","5","7","4","f","f","0","0","7","5","f","7","5","2","1","e">>
SuffixHunter2 == <<"D","6","6","A","6","3","D","4","B","F","1","7","4","7","9","4","0","5","7","8","E","C","3","D","0","1","0","3","5","3","0","E","2","1","D">>
AccRoute == <<"h","t","t","p","s",":","/","/","h","a","v","e","i","b","e","e","n","p","w","n","e","d",".","c","o","m","/","a","p","i","/","v","3","/","b","r","e","a","c","h","e","d","a","c","c","o","u","n","t","/">>
PassRoute == <<"h","t","t","p","s",":","/","/","a","p","i",".","p","w","n","e","d","p","a","s","s","w","o","r","d","s",".","c","o","m","/","r","a","n","g","e","/">>
PasteRoute == <<"h","t","t","p","s",":","/","/","h","a","v","e","i","b","e","e","n","p","w","n","e","d",".","c","o","m","/","a","p","i","/","v","3","/","p","a","s","t","e","a","c","c","o","u","n","t","/">>
AccountEmail == <<"a","b","@","c",".","d","e">>
AccountUser == <<"b","o","b">>
ApiKey == <<"k","e","y">>

Colon == ":"
LF == "\n"
CR == "\r"
NUL == "NUL"

(***************************************************************************)
(* Result<T, CheckpwnError>, and a panic (the call does not return)        *)
(***************************************************************************)
Ok(v) == [tag |-> "Ok", val |-> v]
Err(e) == [tag |-> "Err", err |-> e]
Panic == [tag |-> "Panic"]
NoResult == [tag |-> "None"]

CheckpwnError == {"StatusCode", "Network", "Decoding", "BadResponse",
                  "InvalidApiKey", "MissingApiKey", "EmptyInput"}

CheckableChoices == {"Acc", "Pass", "Paste"}

(***************************************************************************)
(* api.rs                                                                  *)
(***************************************************************************)
get_api_route(kind, search_term) ==
    CASE kind = "Acc" -> AccRoute \o search_term
      [] kind = "Pass" -> PassRoute \o search_term
      [] kind = "Paste" -> PasteRoute \o search_term

\* arg_to_api_route without the truncation of line 56
arg_to_api_route_untruncated(arg, input_data) ==
    [panics |-> FALSE, url |-> get_api_route(arg, input_data)]

\* &input_data[..5] panics when input_data is shorter than 5 bytes
arg_to_api_route(arg, input_data) ==
    IF arg = "Pass"
    THEN IF Len(input_data) < PrefixLen
         THEN [panics |-> TRUE, url |-> <<>>]
         ELSE [panics |-> FALSE,
               url |-> get_api_route(arg, SubSeq(input_data, 1, PrefixLen))]
    ELSE [panics |-> FALSE, url |-> get_api_route(arg, input_data)]

First(S) == CHOOSE i \in S : \A j \in S : i <= j

\* str::lines(): the text is cut after every "\n"; the "\n", and a "\r" right
\* before it, are not part of the line; text after the last "\n" is a last
\* line, and there is no empty last line after a final "\n".
RECURSIVE LinesFrom(_, _)
LinesFrom(s, start) ==
    IF start > Len(s)
    THEN <<>>
    ELSE LET ends == {i \in start..Len(s) : s[i] = LF}
         IN IF ends = {}
            THEN <<SubSeq(s, start, Len(s))>>
            ELSE LET e == First(ends)
                     last == IF e - 1 >= start /\ s[e - 1] = CR THEN e - 2 ELSE e - 1
                 IN <<SubSeq(s, start, last)>> \o LinesFrom(s, e + 1)

Lines(s) == LinesFrom(s, 1)

\* str::split(':'): the fields between the separators, empty ones included
RECURSIVE SplitFrom(_, _, _)
SplitFrom(s, sep, start) ==
    LET seps == {i \in start..Len(s) : s[i] = sep}
    IN IF seps = {}
       THEN <<SubSeq(s, start, Len(s))>>
       ELSE <<SubSeq(s, start, First(seps) - 1)>> \o SplitFrom(s, sep, First(seps) + 1)

Split(s, sep) == SplitFrom(s, sep, 1)

\* The scan of search_in_range from line i on.  pair.get(1).unwrap() panics on
\* a line without ':'; &hashed_key[5..] panics on a key shorter than 5.
RECURSIVE ScanFrom(_, _, _)
ScanFrom(lines, hashed_key, i) ==
    IF i > Len(lines)
    THEN [panics |-> FALSE, found |-> FALSE]
    ELSE LET pair == Split(lines[i], Colon)
         IN IF Len(pair) < 2
            THEN [panics |-> TRUE, found |-> FALSE]
            ELSE IF pair[2] = <<"0">>
                 THEN ScanFrom(lines, hashed_key, i + 1)
                 ELSE IF Len(hashed_key) < PrefixLen
                      THEN [panics |-> TRUE, found |-> FALSE]
                      ELSE IF pair[1] = SubSeq(hashed_key, PrefixLen + 1, Len(hashed_key))
                           THEN [panics |-> FALSE, found |-> TRUE]
                           ELSE ScanFrom(lines, hashed_key, i + 1)

\* search_in_range without the discard of padded entries (lines 68-70)
RECURSIVE ScanPaddedFrom(_, _, _)
ScanPaddedFrom(lines, hashed_key, i) ==
    IF i > Len(lines)
    THEN [panics |-> FALSE, found |-> FALSE]
    ELSE LET pair == Split(lines[i], Colon)
         IN IF Len(pair) < 2
            THEN [panics |-> TRUE, found |-> FALSE]
            ELSE IF pair[1] = SubSeq(hashed_key, PrefixLen + 1, Len(hashed_key))
                 THEN [panics |-> FALSE, found |-> TRUE]
                 ELSE ScanPaddedFrom(lines, hashed_key, i + 1)

search_in_range_padded(password_range_response, hashed_key) ==
    ScanPaddedFrom(Lines(password_range_response), hashed_key, 1)

search_in_range(password_range_response, hashed_key) ==
    ScanFrom(Lines(password_range_response), hashed_key, 1)

\* response_to_status_codes without the Error::Status arm (line 90)
response_to_status_codes_no_status_arm(response) ==
    CASE response.kind = "Ok" -> Ok(response.status)
      [] OTHER -> Err("Network")

\* A request's outcome is Ok(Response), Err(Error::Status(code, Response)) or
\* another Err (Error::Transport).
response_to_status_codes(response) ==
    CASE response.kind = "Ok" -> Ok(response.status)
      [] response.kind = "Status" -> Ok(response.status)
      [] OTHER -> Err("Network")

\* the table with the arm of line 108 taken for the arm of line 104
evaluate_acc_breach_statuscodes_symmetric(acc, paste) ==
    CASE acc = 401 /\ paste = 401 -> Err("InvalidApiKey")
      [] acc = 404 /\ paste = 404 -> Ok(FALSE)
      [] acc = 404 /\ paste = 400 -> Ok(FALSE)
      [] acc = 400 /\ paste = 400 -> Err("BadResponse")
      [] acc = 400 /\ paste = 404 -> Ok(FALSE)
      [] acc = 400 /\ paste = 200 -> Err("BadResponse")
      [] OTHER -> Ok(TRUE)

evaluate_acc_breach_statuscodes(acc, paste) ==
    CASE acc = 401 /\ paste = 401 -> Err("InvalidApiKey")
      [] acc = 404 /\ paste = 404 -> Ok(FALSE)
      [] acc = 404 /\ paste = 400 -> Ok(FALSE)
      [] acc = 400 /\ paste = 400 -> Err("BadResponse")
      [] acc = 400 /\ paste = 404 -> Err("BadResponse")
      [] acc = 400 /\ paste = 200 -> Err("BadResponse")
      [] OTHER -> Ok(TRUE)

\* SHA-1, hex-encoded, in upper case: tabulated on the plaintexts of the model
DigestEmpty == <<"D","A","3","9","A","3","E","E","5","E","6","B","4","B","0","D","3","2","5","5","B","F","E","F","9","5","6","0","1","8","9","0","A","F","D","8","0","7","0","9">>

hash_password(pw) ==
    CASE pw = qwerty -> DigestQwerty
      [] pw = hunter2 -> DigestHunter2
      [] pw = <<>> -> DigestEmpty

(***************************************************************************)
(* Inputs of the model: what a caller passes and what the servers answer   *)
(***************************************************************************)
Accounts == {<<>>, AccountEmail, AccountUser}
ApiKeys == {<<>>, ApiKey}
Plaintexts == {<<>>, qwerty, hunter2}
Digests == {DigestQwerty, DigestHunter2}

\* u16 statuses the endpoints are documented to answer, and two others
StatusCodes == {200, 204, 400, 401, 404, 429, 503}

\* A line of a range response: SUFFIX:COUNT when colon, SUFFIX alone otherwise
Suffixes == {SuffixQwerty, SuffixQwertyLower, SuffixHunter2}
Counts == {<<"0">>, <<"3">>, <<"1","0">>}
RangeLines ==
    {[suffix |-> x, count |-> c, colon |-> TRUE] : x \in Suffixes, c \in Counts}
    \cup {[suffix |-> x, count |-> <<>>, colon |-> FALSE] : x \in {<<>>, SuffixQwerty}}

RenderLine(l) == IF l.colon THEN l.suffix \o <<Colon>> \o l.count ELSE l.suffix

RECURSIVE Render(_, _, _)
Render(ls, eol, trailing) ==
    IF ls = <<>> THEN <<>>
    ELSE IF Len(ls) = 1
         THEN RenderLine(ls[1]) \o (IF trailing THEN eol ELSE <<>>)
         ELSE RenderLine(ls[1]) \o eol \o Render(Tail(ls), eol, trailing)

LineSeqs == UNION {[1..n -> RangeLines] : n \in 0..MaxLines}
Eols == {<<LF>>, <<CR, LF>>}

\* A response: its status, its body as sent (lines: the rows it was made of)
\* and whether Response::into_string can read and decode the body.
Response(kind, status, ls, eol, trailing, readable) ==
    [kind |-> kind, status |-> status, lines |-> ls,
     body |-> Render(ls, eol, trailing), readable |-> readable]

TransportError ==
    [kind |-> "Transport", status |-> 0, lines |-> <<>>, body |-> <<>>,
     readable |-> FALSE]

NoCall ==
    [kind |-> "NoCall", status |-> 0, lines |-> <<>>, body |-> <<>>,
     readable |-> FALSE]

\* ureq 2.x Request::call: Ok(Response) for a status below 400,
\* Err(Error::Status(code, Response)) for 400 and above, Err(Error::Transport)
\* when no response was obtained.
KindOf(status) == IF status < 400 THEN "Ok" ELSE "Status"

\* Outcomes of a request to the account or paste endpoint (the body is not read)
AccountOutcomes ==
    {Response(KindOf(st), st, <<>>, <<LF>>, FALSE, TRUE) : st \in StatusCodes}
    \cup {TransportError}

\* Outcomes of a request to the range endpoint
RangeOutcomes ==
    {Response(KindOf(st), st, ls, eol, tr, TRUE) :
        st \in StatusCodes, ls \in LineSeqs, eol \in Eols, tr \in BOOLEAN}
    \cup {Response(KindOf(st), st, <<>>, <<LF>>, FALSE, FALSE) : st \in StatusCodes}
    \cup {TransportError}

(***************************************************************************)
(* Password (lib.rs:94-122): the String's buffer and its length            *)
(***************************************************************************)
NoPassword == [state |-> "none", len |-> 0, buf |-> <<>>]

Hash(p) == SubSeq(p.buf, 1, p.len)

\* String::zeroize: every byte of the buffer is overwritten, the length is 0
Zeroize(p) ==
    [state |-> "dropped", len |-> 0, buf |-> [i \in 1..Len(p.buf) |-> NUL]]

Request(kind, url) == [ev |-> "request", kind |-> kind, url |-> url, ms |-> 0]
Completed(kind, outcome) ==
    [ev |-> IF outcome.kind = "Transport" THEN "failure" ELSE "response",
     kind |-> kind, url |-> <<>>, ms |-> 0]
Slept(ms) == [ev |-> "sleep", kind |-> "none", url |-> <<>>, ms |-> ms]
Hashed == [ev |-> "hash", kind |-> "none", url |-> <<>>, ms |-> 0]

NoFn == [name |-> "none"]

Init ==
    /\ pc = "idle"
    /\ op = "none"
    /\ account = <<>>
    /\ api_key = <<>>
    /\ plaintext = <<>>
    /\ password = NoPassword
    /\ acc_stat = NoCall
    /\ paste_stat = NoCall
    /\ pass_stat = NoCall
    /\ result = NoResult
    /\ events = <<>>
    /\ fn = NoFn

(***************************************************************************)
(* check_account (lib.rs:59-90)                                            *)
(***************************************************************************)
\* check_account with only the first half of the condition of line 60
CheckAccountCall_account_only ==
    /\ pc = "idle"
    /\ \E a \in Accounts, k \in ApiKeys :
        /\ account' = a
        /\ api_key' = k
        /\ op' = "check_account"
        /\ IF a = <<>>
           THEN /\ result' = Err("EmptyInput")
                /\ pc' = "returned"
           ELSE /\ result' = NoResult
                /\ pc' = "acc_sleep"
    /\ UNCHANGED <<plaintext, password, acc_stat, paste_stat, pass_stat, events, fn>>

\* lib.rs:59-62: the call and its check of the arguments
CheckAccountCall ==
    /\ pc = "idle"
    /\ \E a \in Accounts, k \in ApiKeys :
        /\ account' = a
        /\ api_key' = k
        /\ op' = "check_account"
        /\ IF a = <<>> \/ k = <<>>
           THEN /\ result' = Err("EmptyInput")
                /\ pc' = "returned"
           ELSE /\ result' = NoResult
                /\ pc' = "acc_sleep"
    /\ UNCHANGED <<plaintext, password, acc_stat, paste_stat, pass_stat, events, fn>>

\* lib.rs:65: thread::sleep
Sleep ==
    /\ pc = "acc_sleep"
    /\ events' = Append(events, Slept(SleepMillis))
    /\ pc' = "acc_req"
    /\ UNCHANGED <<op, account, api_key, plaintext, password,
                   acc_stat, paste_stat, pass_stat, result, fn>>

\* lib.rs:67 and 74-78: the account request is sent
AccRequest ==
    /\ pc = "acc_req"
    /\ events' = Append(events, Request("Acc", arg_to_api_route("Acc", account).url))
    /\ pc' = "acc_wait"
    /\ UNCHANGED <<op, account, api_key, plaintext, password,
                   acc_stat, paste_stat, pass_stat, result, fn>>

\* lib.rs:78: call() returns
AccResponse ==
    /\ pc = "acc_wait"
    /\ \E o \in AccountOutcomes :
        /\ acc_stat' = o
        /\ events' = Append(events, Completed("Acc", o))
    /\ pc' = "paste_req"
    /\ UNCHANGED <<op, account, api_key, plaintext, password,
                   paste_stat, pass_stat, result, fn>>

\* the paste request with a rate-limit sleep of its own
PasteRequest_after_sleep ==
    /\ pc = "paste_req"
    /\ events' = events \o <<Slept(SleepMillis),
                             Request("Paste", arg_to_api_route("Paste", account).url)>>
    /\ pc' = "paste_wait"
    /\ UNCHANGED <<op, account, api_key, plaintext, password,
                   acc_stat, paste_stat, pass_stat, result, fn>>

\* lib.rs:68 and 80-84: the paste request is sent
PasteRequest ==
    /\ pc = "paste_req"
    /\ events' = Append(events, Request("Paste", arg_to_api_route("Paste", account).url))
    /\ pc' = "paste_wait"
    /\ UNCHANGED <<op, account, api_key, plaintext, password,
                   acc_stat, paste_stat, pass_stat, result, fn>>

\* lib.rs:84: call() returns
PasteResponse ==
    /\ pc = "paste_wait"
    /\ \E o \in AccountOutcomes :
        /\ paste_stat' = o
        /\ events' = Append(events, Completed("Paste", o))
    /\ pc' = "acc_eval"
    /\ UNCHANGED <<op, account, api_key, plaintext, password,
                   acc_stat, pass_stat, result, fn>>

\* lib.rs:86-89: each `?` returns the Network error of its request
check_account_result(acc, paste) ==
    LET a == response_to_status_codes(acc)
    IN IF a.tag = "Err" THEN Err(a.err)
       ELSE LET p == response_to_status_codes(paste)
            IN IF p.tag = "Err" THEN Err(p.err)
               ELSE evaluate_acc_breach_statuscodes(a.val, p.val)

AccEvaluate ==
    /\ pc = "acc_eval"
    /\ result' = check_account_result(acc_stat, paste_stat)
    /\ pc' = "returned"
    /\ UNCHANGED <<op, account, api_key, plaintext, password,
                   acc_stat, paste_stat, pass_stat, events, fn>>

(***************************************************************************)
(* Password::new and Drop (lib.rs:98-122)                                  *)
(***************************************************************************)
PasswordNew ==
    /\ pc = "idle"
    /\ password.state # "live"
    /\ \E p \in Plaintexts :
        /\ plaintext' = p
        /\ IF p = <<>>
           THEN /\ result' = Err("EmptyInput")
                /\ UNCHANGED <<password, events>>
           ELSE /\ password' = [state |-> "live", len |-> Len(hash_password(p)),
                                buf |-> hash_password(p)]
                /\ events' = <<Hashed>>
                /\ result' = Ok("Password")
    /\ op' = "Password::new"
    /\ pc' = "returned"
    /\ UNCHANGED <<account, api_key, acc_stat, paste_stat, pass_stat, fn>>

\* a Drop that frees the String without zeroize
drop_without_zeroize(p) == [p EXCEPT !.state = "dropped"]

\* lib.rs:117-122
drop(p) == Zeroize(p)

\* the owner's scope ends
Drop ==
    /\ pc = "idle"
    /\ password.state = "live"
    /\ password' = drop(password)
    /\ UNCHANGED <<pc, op, account, api_key, plaintext,
                   acc_stat, paste_stat, pass_stat, result, events, fn>>

(***************************************************************************)
(* check_password (lib.rs:127-156)                                         *)
(***************************************************************************)
\* lib.rs:128-138: the range request is sent
PassRequest ==
    /\ pc = "idle"
    /\ password.state = "live"
    /\ op' = "check_password"
    /\ LET route == arg_to_api_route("Pass", Hash(password))
       IN IF route.panics
          THEN /\ result' = Panic
               /\ pc' = "panicked"
               /\ UNCHANGED events
          ELSE /\ result' = NoResult
               /\ events' = <<Request("Pass", route.url)>>
               /\ pc' = "pw_wait"
    /\ UNCHANGED <<account, api_key, plaintext, password,
                   acc_stat, paste_stat, pass_stat, fn>>

\* lib.rs:138: call() returns
PassResponse ==
    /\ pc = "pw_wait"
    /\ \E o \in RangeOutcomes :
        /\ pass_stat' = o
        /\ events' = Append(events, Completed("Pass", o))
    /\ pc' = "pw_eval"
    /\ UNCHANGED <<op, account, api_key, plaintext, password,
                   acc_stat, paste_stat, result, fn>>

\* lib.rs:140-156
check_password_result(stat, hash) ==
    LET request_status == response_to_status_codes(stat)
    IN IF request_status.tag = "Err" THEN Err(request_status.err)
       ELSE IF stat.kind # "Ok" THEN Panic          \* pass_stat.unwrap()
       ELSE IF ~stat.readable THEN Panic            \* into_string().unwrap()
       ELSE LET m == search_in_range(stat.body, hash)
            IN IF m.panics THEN Panic
               ELSE IF m.found
                    THEN IF request_status.val = 200 THEN Ok(TRUE)
                         ELSE IF request_status.val = 404 THEN Ok(FALSE)
                         ELSE Err("StatusCode")
                    ELSE Ok(FALSE)

PassEvaluate ==
    /\ pc = "pw_eval"
    /\ result' = check_password_result(pass_stat, Hash(password))
    /\ pc' = IF result'.tag = "Panic" THEN "panicked" ELSE "returned"
    /\ UNCHANGED <<op, account, api_key, plaintext, password,
                   acc_stat, paste_stat, pass_stat, events, fn>>

(***************************************************************************)
(* The caller: direct calls of the helpers, and the end of an invocation   *)
(***************************************************************************)
RouteTerms(kind) ==
    IF kind = "Pass"
    THEN Digests \cup {SubSeq(DigestQwerty, 1, 5), SubSeq(DigestHunter2, 1, 6)}
    ELSE (Accounts \ {<<>>}) \cup Digests

RouteCall ==
    /\ pc = "idle"
    /\ \E kind \in CheckableChoices :
        \E term \in RouteTerms(kind) :
            fn' = [name |-> "arg_to_api_route", kind |-> kind, term |-> term,
                   ret |-> arg_to_api_route(kind, term)]
    /\ op' = "arg_to_api_route"
    /\ pc' = "returned"
    /\ UNCHANGED <<account, api_key, plaintext, password,
                   acc_stat, paste_stat, pass_stat, result, events>>

SearchCall ==
    /\ pc = "idle"
    /\ \E ls \in LineSeqs, eol \in Eols, tr \in BOOLEAN, d \in Digests :
        fn' = [name |-> "search_in_range", lines |-> ls,
               body |-> Render(ls, eol, tr), key |-> d,
               ret |-> search_in_range(Render(ls, eol, tr), d)]
    /\ op' = "search_in_range"
    /\ pc' = "returned"
    /\ UNCHANGED <<account, api_key, plaintext, password,
                   acc_stat, paste_stat, pass_stat, result, events>>

StatusCall ==
    /\ pc = "idle"
    /\ \E o \in AccountOutcomes :
        fn' = [name |-> "response_to_status_codes", response |-> o,
               ret |-> response_to_status_codes(o)]
    /\ op' = "response_to_status_codes"
    /\ pc' = "returned"
    /\ UNCHANGED <<account, api_key, plaintext, password,
                   acc_stat, paste_stat, pass_stat, result, events>>

EvaluateCall ==
    /\ pc = "idle"
    /\ \E a \in StatusCodes, p \in StatusCodes :
        fn' = [name |-> "evaluate_acc_breach_statuscodes", acc |-> a, paste |-> p,
               ret |-> evaluate_acc_breach_statuscodes(a, p)]
    /\ op' = "evaluate_acc_breach_statuscodes"
    /\ pc' = "returned"
    /\ UNCHANGED <<account, api_key, plaintext, password,
                   acc_stat, paste_stat, pass_stat, result, events>>

\* the caller has the result; nothing of the invocation is kept (no state
\* across calls) except the Password the caller owns
Return ==
    /\ pc = "returned"
    /\ pc' = "idle"
    /\ op' = "none"
    /\ account' = <<>>
    /\ api_key' = <<>>
    /\ plaintext' = <<>>
    /\ acc_stat' = NoCall
    /\ paste_stat' = NoCall
    /\ pass_stat' = NoCall
    /\ result' = NoResult
    /\ events' = <<>>
    /\ fn' = NoFn
    /\ UNCHANGED password

\* a panic unwinds the caller's frames: the Password it owns is dropped
Unwind ==
    /\ pc = "panicked"
    /\ password' = IF password.state = "live" THEN drop(password) ELSE password
    /\ pc' = "idle"
    /\ op' = "none"
    /\ account' = <<>>
    /\ api_key' = <<>>
    /\ plaintext' = <<>>
    /\ acc_stat' = NoCall
    /\ paste_stat' = NoCall
    /\ pass_stat' = NoCall
    /\ result' = NoResult
    /\ events' = <<>>
    /\ fn' = NoFn

Next ==
    \/ CheckAccountCall
    \/ Sleep
    \/ AccRequest
    \/ AccResponse
    \/ PasteRequest
    \/ PasteResponse
    \/ AccEvaluate
    \/ PasswordNew
    \/ Drop
    \/ PassRequest
    \/ PassResponse
    \/ PassEvaluate
    \/ RouteCall
    \/ SearchCall
    \/ StatusCall
    \/ EvaluateCall
    \/ Return
    \/ Unwind

Spec == Init /\ [][Next]_vars

(***************************************************************************)
(* Properties                                                              *)
(***************************************************************************)
Finished == pc \in {"returned", "panicked"}

Requested == op = "check_account" /\ account # <<>> /\ api_key # <<>>

Completion(e) == e.ev \in {"response", "failure"}

\* C1: check_password verdict matrix. Whenever check_password has obtained a
\* response with status s whose body can be read and scanned, with m the
\* answer of search_in_range on that body, it returns Ok(true) for s = 200
\* and m, Ok(false) for s = 404 and m, Err(StatusCode) for another s and m,
\* and Ok(false) without m at any status.
VerdictMatrix ==
    (/\ op = "check_password"
     /\ Finished
     /\ pass_stat.kind \in {"Ok", "Status"}
     /\ pass_stat.readable
     /\ \A i \in DOMAIN pass_stat.lines : pass_stat.lines[i].colon)
    => LET s == pass_stat.status
           m == search_in_range(pass_stat.body, Hash(password)).found
       IN result = IF m
                   THEN IF s = 200 THEN Ok(TRUE)
                        ELSE IF s = 404 THEN Ok(FALSE)
                        ELSE Err("StatusCode")
                   ELSE Ok(FALSE)

\* C2: account decision table. evaluate_acc_breach_statuscodes answers
\* Err(InvalidApiKey) for (401,401), Ok(false) for (404,404) and (404,400),
\* Err(BadResponse) for (400,400), (400,404) and (400,200), Ok(true) for every
\* other ordered pair; check_account returns that answer for the statuses of
\* its two responses.
TableEntry(a, p) ==
    IF <<a, p>> = <<401, 401>> THEN Err("InvalidApiKey")
    ELSE IF <<a, p>> \in {<<404, 404>>, <<404, 400>>} THEN Ok(FALSE)
    ELSE IF <<a, p>> \in {<<400, 400>>, <<400, 404>>, <<400, 200>>}
         THEN Err("BadResponse")
    ELSE Ok(TRUE)

DecisionTable ==
    /\ fn.name = "evaluate_acc_breach_statuscodes"
       => fn.ret = TableEntry(fn.acc, fn.paste)
    /\ (/\ Requested
        /\ pc = "returned"
        /\ acc_stat.kind \in {"Ok", "Status"}
        /\ paste_stat.kind \in {"Ok", "Status"})
       => result = TableEntry(acc_stat.status, paste_stat.status)

\* the table is not symmetric: (404,400) is not breached, (400,404) is an error
DecisionTableWitness ==
    /\ fn.name = "evaluate_acc_breach_statuscodes"
    /\ fn.acc = 404
    /\ fn.paste = 400
    /\ fn.ret = Ok(FALSE)

\* C3: range-scan matcher. On a body of SUFFIX:COUNT lines search_in_range
\* answers true exactly when some line has a COUNT other than "0" and a SUFFIX
\* equal, case-sensitively, to characters 5..39 of the digest; a line with
\* COUNT "0" neither matches nor ends the scan.
RangeScanMatcher ==
    (/\ fn.name = "search_in_range"
     /\ \A i \in DOMAIN fn.lines : fn.lines[i].colon)
    => fn.ret = [panics |-> FALSE,
                 found |-> \E i \in DOMAIN fn.lines :
                              /\ fn.lines[i].count # <<"0">>
                              /\ fn.lines[i].suffix = SubSeq(fn.key, 6, 40)]

\* a padding line with the digest's suffix, then a real line with it: found
RangeScanWitness ==
    /\ fn.name = "search_in_range"
    /\ Len(fn.lines) >= 2
    /\ fn.lines[1].colon
    /\ fn.lines[1].count = <<"0">>
    /\ fn.lines[1].suffix = SubSeq(fn.key, 6, 40)
    /\ fn.lines[2].colon
    /\ fn.lines[2].count # <<"0">>
    /\ fn.lines[2].suffix = SubSeq(fn.key, 6, 40)
    /\ fn.ret.found

\* C4: route builder. For Pass and a term of at least 5 characters the route is
\* the range URL followed by the term's first 5 characters and nothing else;
\* for Acc and Paste it is the endpoint's URL followed by the whole term; the
\* URLs check_password and check_account request are these.
RouteBuilder ==
    /\ (fn.name = "arg_to_api_route" /\ fn.kind = "Pass" /\ Len(fn.term) >= 5)
       => /\ ~fn.ret.panics
          /\ Len(fn.ret.url) = Len(PassRoute) + 5
          /\ \A i \in 1..Len(PassRoute) : fn.ret.url[i] = PassRoute[i]
          /\ \A i \in 1..5 : fn.ret.url[Len(PassRoute) + i] = fn.term[i]
    /\ (fn.name = "arg_to_api_route" /\ fn.kind = "Acc")
       => fn.ret = [panics |-> FALSE, url |-> AccRoute \o fn.term]
    /\ (fn.name = "arg_to_api_route" /\ fn.kind = "Paste")
       => fn.ret = [panics |-> FALSE, url |-> PasteRoute \o fn.term]
    /\ \A i \in DOMAIN events :
        events[i].ev = "request"
        => events[i].url =
             CASE events[i].kind = "Pass" -> PassRoute \o SubSeq(Hash(password), 1, 5)
               [] events[i].kind = "Acc" -> AccRoute \o account
               [] events[i].kind = "Paste" -> PasteRoute \o account

\* a whole digest was given for Pass and 5 of its 40 characters are in the URL
RouteBuilderWitness ==
    /\ fn.name = "arg_to_api_route"
    /\ fn.kind = "Pass"
    /\ Len(fn.term) = 40
    /\ Len(fn.ret.url) = Len(PassRoute) + 5

\* C5: transport-result classification. An outcome with a response, a 4xx or
\* 5xx one included, is mapped to its status and an outcome without a response
\* to Network; check_account and check_password return Err(Network) exactly
\* when one of their requests obtained no response.
TransportClassification ==
    /\ fn.name = "response_to_status_codes"
       => fn.ret = IF fn.response.kind = "Transport"
                   THEN Err("Network")
                   ELSE Ok(fn.response.status)
    /\ (Requested /\ pc = "returned")
       => (result = Err("Network")
           <=> "Transport" \in {acc_stat.kind, paste_stat.kind})
    /\ (op = "check_password" /\ Finished)
       => (result = Err("Network") <=> pass_stat.kind = "Transport")

\* the account request got a 4xx/5xx response, the paste request none
TransportClassificationWitness ==
    /\ Requested
    /\ pc = "returned"
    /\ acc_stat.kind = "Status"
    /\ paste_stat.kind = "Transport"
    /\ result = Err("Network")

\* C6: errors are values. Every invocation of check_password and of
\* check_account ends by returning Ok or Err, whatever the transport did.
EndsByReturning ==
    (op \in {"check_password", "check_account"} /\ Finished)
    => result.tag \in {"Ok", "Err"}

\* C7: empty input rejection. check_account with an empty account or an empty
\* api_key returns Err(EmptyInput) at once, with no sleep and no request;
\* Password::new returns Err(EmptyInput) for the empty plaintext, without
\* hashing, and Ok for every other plaintext.
EmptyInputRejection ==
    /\ (op = "check_account" /\ (account = <<>> \/ api_key = <<>>))
       => /\ pc = "returned"
          /\ result = Err("EmptyInput")
          /\ events = <<>>
    /\ (op = "Password::new" /\ plaintext = <<>>)
       => /\ result = Err("EmptyInput")
          /\ events = <<>>
          /\ password.state # "live"
    /\ (op = "Password::new" /\ plaintext # <<>>)
       => /\ result.tag = "Ok"
          /\ password.state = "live"

\* an account was given and the key is empty
EmptyInputWitness ==
    /\ op = "check_account"
    /\ account # <<>>
    /\ api_key = <<>>
    /\ result = Err("EmptyInput")

\* C8: request sequence. An invocation of check_account with non-empty
\* arguments does, in this order and nothing else: one sleep of 1600 ms, the
\* account request, its completion, the paste request, its completion; when
\* it returns it has done all five. check_password does one request and its
\* completion, and no sleep.
RequestSequence ==
    /\ Requested
       => /\ Len(events) <= 5
          /\ \A i \in DOMAIN events :
              CASE i = 1 -> events[i].ev = "sleep" /\ events[i].ms = 1600
                                                   /\ events[i].ms >= 1500
                [] i = 2 -> events[i].ev = "request" /\ events[i].kind = "Acc"
                [] i = 3 -> Completion(events[i]) /\ events[i].kind = "Acc"
                [] i = 4 -> events[i].ev = "request" /\ events[i].kind = "Paste"
                [] i = 5 -> Completion(events[i]) /\ events[i].kind = "Paste"
          /\ pc = "returned" => Len(events) = 5
          /\ pc \in {"acc_wait", "paste_wait"} <=> (events # <<>> /\ events[Len(events)].ev = "request")
    /\ op = "check_password"
       => /\ Len(events) <= 2
          /\ \A i \in DOMAIN events :
              CASE i = 1 -> events[i].ev = "request" /\ events[i].kind = "Pass"
                [] i = 2 -> Completion(events[i]) /\ events[i].kind = "Pass"

\* check_account has returned after its sleep and its two requests
RequestSequenceWitness ==
    /\ Requested
    /\ pc = "returned"
    /\ Len(events) = 5
    /\ events[1].ev = "sleep"
    /\ events[4].ev = "request"

\* C9: immediate surfacing of a transport failure. After a request of an
\* invocation has failed at transport level no further request is issued in
\* that invocation; in particular no paste request follows a failed account
\* request.
NoRequestAfterFailure ==
    \A i \in DOMAIN events : \A j \in DOMAIN events :
        (i < j /\ events[i].ev = "failure") => events[j].ev # "request"

\* What check_account and check_password do guarantee about a failed request:
\* no endpoint is requested twice in an invocation, no request follows a
\* failed paste or range request, the only request after a failed account
\* request is the paste request, and the invocation returns Err(Network).
NoRetryAfterFailure ==
    /\ \A i \in DOMAIN events : \A j \in DOMAIN events :
        /\ (i < j /\ events[i].ev = "request" /\ events[j].ev = "request")
           => events[i].kind # events[j].kind
        /\ (i < j /\ events[i].ev = "failure" /\ events[i].kind \in {"Paste", "Pass"})
           => events[j].ev # "request"
        /\ (i < j /\ events[i].ev = "failure" /\ events[i].kind = "Acc"
                  /\ events[j].ev = "request")
           => events[j].kind = "Paste"
    /\ (pc = "returned" /\ \E i \in DOMAIN events : events[i].ev = "failure")
       => result = Err("Network")

\* C10: digest scrubbing. The step that drops a Password overwrites every byte
\* of its digest and leaves it empty, a dropped Password holds no digest, and
\* no step of check_password changes the Password it was given.
DigestScrubbing ==
    [][/\ (password.state = "live" /\ password'.state = "dropped")
          => /\ Hash(password') = <<>>
             /\ Len(password'.buf) = Len(password.buf)
             /\ \A i \in DOMAIN password'.buf : password'.buf[i] = NUL
       /\ (op' = "check_password" \/ (op = "check_password" /\ pc = "returned"))
          => password' = password]_vars

\* a Password that held a 40-character digest has been dropped
DigestScrubbingWitness ==
    /\ password.state = "dropped"
    /\ Len(password.buf) = DigestLen
    /\ pc = "idle"

====
